---- MODULE Spec2Model ----
(***************************************************************************)
(* Progressive vector-graphics reconstruction controller                   *)
(* (pair/Layerwise/evenodd.py): stages add paths, optimise them against a  *)
(* rendering oracle and record the residual that guides the next stage.    *)
(*                                                                         *)
(* Reals are fixed point: UNIT is 1.0 for coordinates and colours, RES is  *)
(* 1.0 for residuals.  The values the model draws are multiples of 360, so *)
(* every division the code performs is exact in the model.                 *)
(***************************************************************************)
EXTENDS Integers, Sequences, FiniteSets, TLC

\* ---------------------------------------------------------------- bounds
MaxStages == 2
MaxPaths == 3
MaxIter == 2
\* --epoch of the training loop, and the largest finite test loss (in 1/1000)
MaxEpoch == 3
MaxLoss == 2
\* magnitude of one Adam update of a coordinate / of a colour channel at the
\* initial learning rate
PointStep == 4320
ColorStep == 400

\* fixed-point scale of 1.0 (random.random() is in [0, 1))
UNIT == 4320
\* fixed-point scale of a residual of 1.0
RES == 16

\* an optional value: None, or Some(x) holding x
None == <<>>
Some(x) == <<x>>
Get(o) == o[1]

\* ------------------------------------------------------- configurations
PoolSizes == {1, 2}
\* num_segments = 1 makes get_bezier_circle evaluate tan(pi/2): left out
NumSegments == {2, 3}
\* (initial, circle_init_radius)
InitialModes == {<<"random", None>>, <<"circle", None>>, <<"circle", Some(432)>>}
\* target.shape[3], target.shape[2]
CanvasSizes == {<<4, 2>>}
\* the rendering oracle is one deterministic function out of a small family
Oracles == {0, 1}
\* numpy's generator is never seeded by the program: its state at start
NpSeeds == {0, 1}

\* the optional outputs: --save_init, --save_image, --save_loss, --save_video,
\* --print_weight
NoFlags ==
    [save_init |-> FALSE, save_image |-> FALSE, save_loss |-> FALSE,
     save_video |-> FALSE, print_weight |-> FALSE]
AllFlags ==
    [save_init |-> TRUE, save_image |-> TRUE, save_loss |-> TRUE,
     save_video |-> TRUE, print_weight |-> TRUE]
FlagSets ==
    [save_init : BOOLEAN, save_image : BOOLEAN, save_loss : BOOLEAN,
     save_video : BOOLEAN, print_weight : BOOLEAN]
\* the flag settings of the runs explored in full
MainFlags == {NoFlags, AllFlags}

\* the directories make_save_path creates; each is absent, a directory or a file
DirNames == {"save_path", "videos", "images"}
FreshFs == [d \in DirNames |-> "absent"]
\* 'videos' and 'images' are inside the save path
FsStates ==
    {f \in [DirNames -> {"absent", "dir", "file"}] :
        f["save_path"] # "dir" => (f["videos"] = "absent" /\ f["images"] = "absent")}

RECURSIVE SeqsUpTo(_, _)
SeqsUpTo(S, n) ==
    IF n = 0 THEN {<<>>}
    ELSE LET shorter == SeqsUpTo(S, n - 1)
         IN  shorter \cup {Append(s, x) : s \in {q \in shorter : Len(q) = n - 1}, x \in S}

\* ------------------------------------------------------------- helpers
\* Op applied to the value of v, v evaluated once
Bind(v, Op(_)) == CHOOSE r \in {Op(x) : x \in {y \in {v} : y = y}} : r = r

RECURSIVE SumFrom(_, _)
SumFrom(s, i) == IF i > Len(s) THEN 0 ELSE s[i] + SumFrom(s, i + 1)

\* the sum of a sequence
SumSeq(s) == Bind(s, LAMBDA v : SumFrom(v, 1))

\* the lists --num_paths takes: at most MaxStages stages, MaxPaths paths in all
NumPathsLists ==
    {l \in SeqsUpTo(0..MaxPaths, MaxStages) \ {<<>>} : SumFrom(l, 1) <= MaxPaths}

RECURSIVE SumIn(_, _)
SumIn(f, S) ==
    IF S = {} THEN 0
    ELSE Bind(CHOOSE y \in S : TRUE, LAMBDA x : f[x] + SumIn(f, S \ {x}))

\* the sum of f over the set S
SumOver(f, S) == Bind(f, LAMBDA v : SumIn(v, S))

Reverse(s) == Bind(s, LAMBDA v : [i \in 1..Len(v) |-> v[Len(v) + 1 - i]])

\* the prefix s[:n] of Python slicing, n >= 0
Prefix(s, n) == SubSeq(s, 1, IF n < Len(s) THEN n ELSE Len(s))

Pixels(w, h) == (0..(h - 1)) \X (0..(w - 1))

\* random.random() after random.seed(1234): the n-th value of a fixed stream
PyRandom(n) == 360 * ((5 * n + 7) % 12)

\* np.random.uniform(low=0.01, high=0.2): the c-th value of the unseeded stream
NpUniform(seed, c) == IF (seed + c) % 2 = 0 THEN 432 ELSE 864

\* the values random.random() returns from state n on, k of them
RandomValues(n, k) == [i \in 1..k |-> PyRandom(n + i - 1)]

\* ------------------------------------------------------- directories
\* os.makedirs(d) on the file system f: creates d and its missing parent;
\* faults are the paths whose creation the system refuses (EACCES)
makedirs(f, d, faults) ==
    IF f[d] # "absent" THEN [fs |-> f, errno |-> "EEXIST"]
    ELSE IF d # "save_path" /\ f["save_path"] = "file" THEN [fs |-> f, errno |-> "ENOTDIR"]
    ELSE IF d \in faults THEN [fs |-> f, errno |-> "EACCES"]
    ELSE [fs |-> [f EXCEPT ![d] = "dir", !["save_path"] = "dir"], errno |-> "OK"]

\* lines 98-103: the two subdirectories, in one try block that passes on any OSError
MakeVideoDirs(f, faults) ==
    Bind(makedirs(f, "videos", faults), LAMBDA v :
        IF v.errno # "OK" THEN v.fs
        ELSE makedirs(v.fs, "images", faults).fs)

\* lines 82-104: the file system make_save_path leaves, and whether it raised
make_save_path(save_video, f, faults) ==
    Bind(makedirs(f, "save_path", faults), LAMBDA r :
        IF r.errno = "OK" \/ (r.errno = "EEXIST" /\ r.fs["save_path"] = "dir")
        THEN [fs |-> IF save_video THEN MakeVideoDirs(r.fs, faults) ELSE r.fs,
              raised |-> FALSE]
        ELSE [fs |-> r.fs, raised |-> TRUE])

\* VAE/utils.py mkdir_p(d)
mkdir_p(f, d, faults) ==
    Bind(makedirs(f, d, faults), LAMBDA r :
        [fs |-> r.fs,
         raised |-> ~(r.errno = "OK" \/ (r.errno = "EEXIST" /\ r.fs[d] = "dir"))])

\* ------------------------------------------------------------- names
\* str(n) of a count, n >= 0
RECURSIVE str(_)
str(n) == IF n < 10 THEN ToString(n) ELSE str(n \div 10) \o ToString(n % 10)

\* lines 229, 238: current_path_str after the stages with these counts
RECURSIVE PathStr(_)
PathStr(counts) ==
    IF counts = <<>> THEN ""
    ELSE PathStr(SubSeq(counts, 1, Len(counts) - 1)) \o str(counts[Len(counts)]) \o ","

\* current_path_str[:-1]
StageName(counts) == Bind(PathStr(counts), LAMBDA s : SubSeq(s, 1, Len(s) - 1))

\* the document is named after the count of the current stage alone
SvgNameLastCount(counts) == "save_path/" \o str(counts[Len(counts)]) \o ".svg"

\* line 309
SvgName(counts) == "save_path/" \o StageName(counts) \o ".svg"
\* line 262
InitSvgName(counts) == "save_path/" \o StageName(counts) \o "-init.svg"
\* line 285
PngName(counts) == "save_path/" \o StageName(counts) \o ".png"
\* lines 282, 333
FrameName(counts, i) == "save_path/images/" \o StageName(counts) \o "-" \o str(i) \o ".png"
\* line 338
VideoName(counts) == "save_path/videos/" \o StageName(counts) \o ".mp4"
\* lines 327, 207, 211
LossMapNames(counts) ==
    << "save_path/" \o StageName(counts) \o "-loss_pixel.png",
       "save_path/" \o StageName(counts) \o "-loss_region.png" >>

\* ------------------------------------------------- get_bezier_circle
\* lines 58-73 evaluated for the segment count, in units of 1/8, in list order
CircleTable(segments) ==
    IF segments = 2
    THEN << <<8, 0>>, <<3, 13>>, <<-3, 13>>, <<-8, 0>>,
            <<-3, -13>>, <<3, -13>>, <<8, 0>> >>
    ELSE << <<8, 0>>, <<7, 7>>, <<2, 10>>, <<-4, 7>>, <<-10, 3>>, <<-10, -3>>,
            <<-4, -7>>, <<2, -10>>, <<7, -7>>, <<8, 0>> >>

\* the closing anchor is kept
get_bezier_circle_uncut(radius, segments, bias) ==
    Bind(Reverse(CircleTable(segments)), LAMBDA reversed :
        [i \in 1..Len(reversed) |->
            << (reversed[i][1] * radius) \div 8 + bias[1],
               (reversed[i][2] * radius) \div 8 + bias[2] >>])

get_bezier_circle(radius, segments, bias) ==
    Bind(Reverse(CircleTable(segments)), LAMBDA reversed :
    Bind(SubSeq(reversed, 1, Len(reversed) - 1), LAMBDA cut :
        [i \in 1..Len(cut) |->
            << (cut[i][1] * radius) \div 8 + bias[1],
               (cut[i][2] * radius) \div 8 + bias[2] >>]))

\* ---------------------------------------------------- init_new_paths
\* radius * (random.random() - 0.5) with radius = 0.05
Jitter(d) == (d - UNIT \div 2) \div 20

\* lines 146-155: the points appended from segment j on, p0 the running anchor
RECURSIVE RandomSegments(_, _, _, _)
RandomSegments(p0, j, num_segments, n) ==
    Bind(<<p0[1] + Jitter(PyRandom(n)), p0[2] + Jitter(PyRandom(n + 1))>>, LAMBDA p1 :
    Bind(<<p1[1] + Jitter(PyRandom(n + 2)), p1[2] + Jitter(PyRandom(n + 3))>>, LAMBDA p2 :
    Bind(<<p2[1] + Jitter(PyRandom(n + 4)), p2[2] + Jitter(PyRandom(n + 5))>>, LAMBDA p3 :
        (IF j < num_segments - 1 THEN <<p1, p2, p3>> ELSE <<p1, p2>>)
        \o (IF j + 1 < num_segments
            THEN RandomSegments(p3, j + 1, num_segments, n + 6)
            ELSE <<>>))))

\* lines 143-156
RandomInitPoints(n, num_segments) ==
    Bind(<<PyRandom(n), PyRandom(n + 1)>>, LAMBDA p0 :
        <<p0>> \o RandomSegments(p0, 0, num_segments, n + 2))

\* lines 142-164: the points of one new path and the generator states after it
NewPoints(args, n, c, seed) ==
    IF args.initial = "random"
    THEN [points |-> RandomInitPoints(n, args.num_segments),
          rng |-> n + 2 + 6 * args.num_segments,
          npc |-> c,
          log |-> RandomValues(n, 2 + 6 * args.num_segments)]
    ELSE LET fixed == args.circle_init_radius # None IN
         Bind(IF fixed THEN Get(args.circle_init_radius) ELSE NpUniform(seed, c), LAMBDA radius :
             [points |-> get_bezier_circle(radius, args.num_segments,
                                           <<PyRandom(n), PyRandom(n + 1)>>),
              rng |-> n + 2,
              npc |-> IF fixed THEN c ELSE c + 1,
              log |-> (IF fixed THEN <<>> ELSE <<radius>>) \o RandomValues(n, 2)])

\* points.mean(dim=0)
Mean(points) ==
    Bind(points, LAMBDA p :
        << SumSeq([i \in 1..Len(p) |-> p[i][1]]) \div Len(p),
           SumSeq([i \in 1..Len(p) |-> p[i][2]]) \div Len(p) >>)

\* line 169: points - points.mean(dim=0, keepdim=True) + norm_postion[i]
Recenter(points, pos) ==
    Bind(points, LAMBDA p :
    Bind(Mean(p), LAMBDA m :
        [i \in 1..Len(p) |-> <<p[i][1] - m[1] + pos[1], p[i][2] - m[2] + pos[2]>>]))

\* lines 171-172
ScaleToCanvas(points, canvas_width, canvas_height) ==
    Bind(points, LAMBDA p :
        [i \in 1..Len(p) |-> <<p[i][1] * canvas_width, p[i][2] * canvas_height>>])

\* adaptive_avg_pool2d: window of output cell i over an input of length len
Window(i, len, out) == ((i * len) \div out)..((((i + 1) * len + out - 1) \div out) - 1)

adaptive_avg_pool2d(x, in_h, in_w, out_h, out_w) ==
    Bind(x, LAMBDA v :
        [c \in Pixels(out_w, out_h) |->
            Bind(Window(c[1], in_h, out_h) \X Window(c[2], in_w, out_w), LAMBDA win :
                SumOver(v, win) \div Cardinality(win))])

\* region_loss.reshape(-1)
Flatten(grid, size) == [n \in 0..(size * size - 1) |-> grid[<<n \div size, n % size>>]]

\* torch.sort(values, descending=True) without stable=True: every order of the
\* indices along which the values do not increase is a possible result
DescendingSorts(values) ==
    LET n == Cardinality(DOMAIN values)
    IN  {perm \in [1..n -> DOMAIN values] :
            /\ \A i, j \in 1..n : i # j => perm[i] # perm[j]
            /\ \A i \in 1..(n - 1) : values[perm[i]] >= values[perm[i + 1]]}

\* line 128
IndicesH(index, pool_size) == index \div pool_size
\* the column taken for the row
IndicesWAsRow(index, pool_size) == index \div pool_size

\* line 129
IndicesW(index, pool_size) == index % pool_size

\* lines 132-133: (w + 0.5) / pool_size, (h + 0.5) / pool_size
NormPosition(indices, pool_size) ==
    [i \in 1..Len(indices) |->
        << ((2 * IndicesW(indices[i], pool_size) + 1) * UNIT) \div (2 * pool_size),
           ((2 * IndicesH(indices[i], pool_size) + 1) * UNIT) \div (2 * pool_size) >>]

\* every new shape on the cell of largest residual
SelectedIndicesTopCell(pixel_loss, pool_size, num_paths) ==
    LET region_loss == adaptive_avg_pool2d(pixel_loss, pool_size, pool_size,
                                           pool_size, pool_size)
    IN  Bind(Flatten(region_loss, pool_size), LAMBDA flat :
            {[i \in 1..num_paths |-> perm[1]] : perm \in DescendingSorts(flat)})

\* lines 125-127: the results indices[:num_paths] can take
SelectedIndices(pixel_loss, pool_size, num_paths) ==
    LET region_loss == adaptive_avg_pool2d(pixel_loss, pool_size, pool_size,
                                           pool_size, pool_size)
    IN  Bind(Flatten(region_loss, pool_size), LAMBDA flat :
            {Prefix(perm, num_paths) : perm \in DescendingSorts(flat)})

\* the group index counted within the stage only
ShapeIdsLocal(num_old_shapes, i) == <<i>>

\* line 179
ShapeIds(num_old_shapes, i) == <<num_old_shapes + i>>

\* lines 137-185: paths i, i+1, ... of the loop, acc what the loop has built.
\* norm is norm_postion, defined when guided; norm[i] past its end raises.
RECURSIVE InitLoop(_, _, _)
InitLoop(i, acc, cx) ==
    IF i >= cx.num_paths THEN acc
    ELSE
      Bind(NewPoints(cx.args, acc.rng, acc.npc, cx.seed), LAMBDA np :
          IF cx.guided /\ i + 1 > Len(cx.norm)
          THEN [acc EXCEPT !.rng = np.rng, !.npc = np.npc,
                           !.log = acc.log \o np.log, !.error = "IndexError"]
          ELSE
            LET placed == IF cx.guided THEN Recenter(np.points, cx.norm[i + 1])
                          ELSE np.points
                path == [num_control_points |-> [j \in 1..cx.args.num_segments |-> 2],
                         points |-> ScaleToCanvas(placed, cx.canvas_width, cx.canvas_height),
                         is_closed |-> TRUE,
                         requires_grad |-> TRUE]
                group == [shape_ids |-> ShapeIds(cx.num_old_shapes, i),
                          use_even_odd_rule |-> FALSE,
                          fill_color |-> RandomValues(np.rng, 4),
                          requires_grad |-> TRUE]
            IN  Bind([shapes |-> Append(acc.shapes, path),
                      shape_groups |-> Append(acc.shape_groups, group),
                      rng |-> np.rng + 4,
                      npc |-> np.npc,
                      log |-> acc.log \o np.log \o RandomValues(np.rng, 4),
                      error |-> "None"],
                     LAMBDA next : InitLoop(i + 1, next, cx)))

\* lines 119-195 from random state n, numpy state c; indices is the outcome of
\* the sort (<<>> without an error map)
init_new_paths(num_paths, canvas_width, canvas_height, args, num_old_shapes, pixel_loss, indices, n, c, seed) ==
    Bind([num_paths |-> num_paths, canvas_width |-> canvas_width,
          canvas_height |-> canvas_height, args |-> args,
          num_old_shapes |-> num_old_shapes,
          guided |-> pixel_loss # None,
          norm |-> NormPosition(indices, args.pool_size),
          seed |-> seed],
         LAMBDA cx : InitLoop(0,
                              [shapes |-> <<>>, shape_groups |-> <<>>, rng |-> n,
                               npc |-> c, log |-> <<>>, error |-> "None"],
                              cx))

\* ------------------------------------------------------ rendering oracle
\* what a render reads: the control points and the fill colours, in list order
SceneSum(point_lists, colors) ==
    Bind(<<point_lists, colors>>, LAMBDA scene :
        SumSeq([i \in 1..Len(scene[1]) |->
                   SumSeq([k \in 1..Len(scene[1][i]) |->
                              scene[1][i][k][1] + scene[1][i][k][2]])])
        + SumSeq([i \in 1..Len(scene[2]) |-> SumSeq(scene[2][i])]))

\* lines 277-291: the distance of the rendered image from the target at each
\* pixel, a deterministic function of the oracle, the seed t and the scene
render(o, w, h, t, point_lists, colors) ==
    Bind((o + t + (SceneSum(point_lists, colors) \div 40)) % 2, LAMBDA pattern :
        [px \in Pixels(w, h) |->
            IF pattern = 0
            THEN (IF px = <<h - 1, w - 1>> THEN RES ELSE 0)
            ELSE (IF px = <<0, w - 1>> THEN RES
                  ELSE IF px = <<h - 1, 0>> THEN RES \div 2 ELSE 0)])

\* loss.backward(): the sign of the gradient the j-th optimised tensor receives
GradSign(o, t, j) == IF (o + t + j) % 2 = 0 THEN 1 ELSE -1

\* lines 291-292: ((img-target)**2).sum(dim=1) * loss_weight, summed
WeightedLoss(residual, weight) ==
    [num |-> SumOver([px \in DOMAIN residual |-> residual[px] * residual[px] * weight.num[px]],
                     DOMAIN residual),
     den |-> weight.den]

\* the weight 1.0 at every pixel
UniformWeightOne(w, h) == [num |-> [px \in Pixels(w, h) |-> 1], den |-> 1]

\* line 233: the scalar 1.0/(canvas_width*canvas_height), broadcast over the canvas
UniformWeight(w, h) == [num |-> [px \in Pixels(w, h) |-> 1], den |-> w * h]

\* exp(v / RES) in units of 1/16, v in 0..16
ExpTable == <<16, 17, 18, 19, 21, 22, 23, 25, 26, 28, 30, 32, 34, 36, 38, 41, 43>>
ExpFP(v) == ExpTable[v + 1]

\* line 319: softmax over the flattened grid, as numerators over a common sum
Softmax(region) ==
    Bind([c \in DOMAIN region |-> ExpFP(region[c])], LAMBDA e :
        [num |-> e, den |-> SumOver(e, DOMAIN e)])

\* line 322: interpolate(size=[canvas_height, canvas_width], mode='area')
Interpolate(weight, pool_size, w, h) ==
    Bind(weight, LAMBDA v :
        [num |-> adaptive_avg_pool2d(v.num, pool_size, pool_size, h, w), den |-> v.den])

\* the interpolated weight is used as it is
NormalizeSkipped(weight) == weight

\* line 323: loss_weight / loss_weight.sum()
Normalize(weight) ==
    Bind(weight, LAMBDA v : [num |-> v.num, den |-> SumOver(v.num, DOMAIN v.num)])

\* lines 317-324
LossWeight(pixel_loss, pool_size, w, h) ==
    Bind(adaptive_avg_pool2d(pixel_loss, h, w, pool_size, pool_size), LAMBDA region :
        Normalize(Interpolate(Softmax(region), pool_size, w, h)))

\* ------------------------------------------------------------ optimiser
\* earlier paths stay in the optimiser whatever --free says
OldPointsVarsAlways(free, old) == old

\* lines 244-250, 265: the earlier paths handed to the points optimiser
OldPointsVars(free, old) == IF free THEN old ELSE <<>>
\* earlier groups stay in the colour optimiser whatever --free says
OldColorVarsAlways(free, old) == old

\* lines 251-256, 266: the earlier groups handed to the colour optimiser
OldColorVars(free, old) == IF free THEN old ELSE <<>>

\* the new lists replace the accumulated ones
ConcatSceneNewOnly(old, new) == new

\* the new entries are put in front
ConcatSceneNewFirst(old, new) == new \o old

\* lines 258-259: [*old, *new]
ConcatScene(old, new) == old \o new

\* the loop leaves the last stage out
MoreStagesButLast(done, num_paths_list) == done < Len(num_paths_list) - 1

\* line 235: the for loop over num_paths_list has a stage left after `done` stages
MoreStages(done, num_paths_list) == done < Len(num_paths_list)

\* the loop stops one iteration early
InRangeButLast(i, num_iter) == i < num_iter - 1

\* lines 272-273: t is in range(num_iter)
InRange(i, num_iter) == i < num_iter

\* fixed-point scale of a learning rate of 1.0
LRU == 100000
\* lines 267, 269: lr=1, eta_min=0.1
PointsBaseLr == 100000
PointsEtaMin == 10000
\* lines 268, 270: lr=0.01, eta_min=0.001
ColorBaseLr == 1000
ColorEtaMin == 100

\* 1000 * cos(pi * e / T_max) for e in 0..T_max, T_max in 1..4
CosTable ==
    << <<1000, -1000>>,
       <<1000, 0, -1000>>,
       <<1000, 500, -500, -1000>>,
       <<1000, 707, 0, -707, -1000>> >>
CosPi(e, T_max) == CosTable[T_max][e + 1]

\* the cosine runs down to zero, without the floor
CosineLRNoFloor(base, eta_min, e, T_max) ==
    IF e = 0 THEN base ELSE (base * (1000 + CosPi(e, T_max))) \div 2000

\* CosineAnnealingLR: the rate after e steps of the schedule, e <= T_max
CosineLR(base, eta_min, e, T_max) ==
    IF e = 0 THEN base
    ELSE eta_min + ((base - eta_min) * (1000 + CosPi(e, T_max))) \div 2000

\* lines 269-270: a scheduler as constructed
NewScheduler(base) == [last_epoch |-> 0, lr |-> base]

\* lines 303-304: scheduler.step()
SchedulerStep(s, base, eta_min, T_max) ==
    [last_epoch |-> s.last_epoch + 1,
     lr |-> CosineLR(base, eta_min, s.last_epoch + 1, T_max)]

\* position of id in the optimiser's parameter list, 0 when it is not in it
IndexIn(params, id) ==
    IF \E j \in 1..Len(params) : params[j] = id
    THEN CHOOSE j \in 1..Len(params) : params[j] = id
    ELSE 0

\* line 300: points_optim.step()
StepPoints(objs, params, o, t, lr) ==
    Bind((PointStep * lr) \div PointsBaseLr, LAMBDA d :
    [id \in DOMAIN objs |->
        Bind(IndexIn(params, id), LAMBDA j :
            IF j = 0 THEN objs[id]
            ELSE [objs[id] EXCEPT !.points =
                     [k \in 1..Len(@) |-> <<@[k][1] - GradSign(o, t, j) * d,
                                            @[k][2] - GradSign(o, t, j) * d>>]])])

\* line 301: color_optim.step()
StepColors(objs, params, o, t, lr) ==
    Bind((ColorStep * lr) \div ColorBaseLr, LAMBDA d :
    [id \in DOMAIN objs |->
        Bind(IndexIn(params, id), LAMBDA j :
            IF j = 0 THEN objs[id]
            ELSE [objs[id] EXCEPT !.fill_color =
                     [k \in 1..Len(@) |-> @[k] - GradSign(o, t, j + k) * d]])])

\* a clamp with the lower limit only
ClampLowerOnly(x) == IF x < 0 THEN 0 ELSE x

\* clamp_(0.0, 1.0) of one channel
Clamp(x) == IF x < 0 THEN 0 ELSE IF x > UNIT THEN UNIT ELSE x

\* lines 306-307: every group of the scene is clamped
ClampGroups(objs, groups) ==
    Bind(objs, LAMBDA stepped :
        [id \in DOMAIN stepped |->
            IF \E j \in 1..Len(groups) : groups[j] = id
            THEN [stepped[id] EXCEPT !.fill_color = [k \in 1..Len(@) |-> Clamp(@[k])]]
            ELSE stepped[id]])

\* ---------------------------------------------- FashionMNIST training
\* float("inf"): above every finite loss
Inf == MaxLoss + 1

\* validate's result float("%.3f" % mean), in thousandths: an L1 loss is not
\* negative, and may overflow to inf
Losses == (0..MaxLoss) \cup {Inf}

\* last_checkpoint.pth: absent, or the 'epoch' and 'best_test_loss' of a
\* process that ran before with some --epoch
Checkpoints ==
    {None} \cup {Some([epoch |-> e, best_test_loss |-> b]) : e \in 0..MaxEpoch, b \in Losses}

\* range(start, stop) as the sequence of its values
range(start, stop) ==
    [i \in 1..(IF stop > start THEN stop - start ELSE 0) |-> start + i - 1]

\* a loss that equals the best one counts as an improvement
IsBetterOrEqual(loss, best) == loss <= best

\* line 135
IsBetter(loss, best) == loss < best

\* ---------------------------------------------------------------- state
VARIABLES
    args, canvas_width, canvas_height,  \* configuration and target size
    oracle, np_seed,                    \* environment
    fs, faults,                         \* the output directories; refused creations
    pc, error, stage, t,                \* position of main
    current_path_str,                   \* the counts joined so far
    path_objs, group_objs,              \* the Path and ShapeGroup objects, by identity
    shapes, shape_groups,               \* lists of object identities
    old_shapes, old_shape_groups,
    points_vars, color_vars,            \* the optimisers' parameter lists
    points_sched, color_sched,          \* the two schedulers
    region_loss, loss_weight, img,
    indices,                            \* indices[:num_paths] of the last placement
    loss_list, loss_matrix,
    rng_state, np_count, rand_log,      \* generators, and the values drawn
    svg_files,                          \* the scene documents written, in order
    side_log,                           \* the other files written and texts printed
    trace,                              \* the optimisation states gone through
    history                             \* results of the runs before this one

\* fashionmnist/main.py
VARIABLES
    train_args,                         \* --epoch
    checkpoint,                         \* last_checkpoint.pth as main finds it
    main_pc,                            \* position of main
    best_test_loss, start_epoch,
    epoch, is_best, test_out,           \* unbound before the first epoch
    logger                              \* the rows appended by this process

vars == <<args, canvas_width, canvas_height, oracle, np_seed, fs, faults, pc, error,
          stage, t, current_path_str, path_objs, group_objs, shapes, shape_groups,
          old_shapes, old_shape_groups, points_vars, color_vars, points_sched,
          color_sched, region_loss, loss_weight, img, indices, loss_list, loss_matrix,
          rng_state, np_count, rand_log, svg_files, side_log, trace, history,
          train_args, checkpoint, main_pc, best_test_loss, start_epoch, epoch,
          is_best, test_out, logger>>

train_vars == <<train_args, checkpoint, main_pc, best_test_loss, start_epoch, epoch,
                is_best, test_out, logger>>

config_vars == <<args, canvas_width, canvas_height, oracle, faults>>

\* fashionmnist/main.py after lines 97-99, for the given --epoch values and
\* checkpoint files
TrainStart(epochs, files) ==
    /\ train_args \in [epoch : epochs]
    /\ checkpoint \in files
    /\ main_pc = "begin"
    /\ best_test_loss = Inf
    /\ start_epoch = 0
    /\ epoch = None
    /\ is_best = None
    /\ test_out = None
    /\ logger = <<>>

\* what lines 225-234 set, and the names bound later, at the entry of main
Start ==
    /\ pc = "start"
    /\ error = "None"
    /\ stage = 0
    /\ t = 0
    /\ current_path_str = <<>>
    /\ path_objs = <<>>
    /\ group_objs = <<>>
    /\ shapes = <<>>
    /\ shape_groups = <<>>
    /\ old_shapes = <<>>
    /\ old_shape_groups = <<>>
    /\ points_vars = <<>>
    /\ color_vars = <<>>
    /\ points_sched = NewScheduler(PointsBaseLr)
    /\ color_sched = NewScheduler(ColorBaseLr)
    /\ region_loss = None
    /\ loss_weight = UniformWeight(canvas_width, canvas_height)
    /\ img = None
    /\ indices = <<>>
    /\ loss_list = <<>>
    /\ loss_matrix = <<>>
    /\ rng_state = 0
    /\ np_count = 0
    /\ rand_log = <<>>
    /\ svg_files = <<>>
    /\ side_log = <<>>
    /\ trace = <<>>

\* (num_segments, (initial, circle_init_radius)); one segment in random mode only
PathKinds == (NumSegments \X InitialModes) \cup {<<1, <<"random", None>>>>}

\* the parsed command lines over the given --num_paths lists and flag settings
Configs(lists, flagsets) ==
    {[num_paths |-> np, num_segments |-> kind[1], num_iter |-> it, free |-> fr,
      pool_size |-> pool, initial |-> kind[2][1], circle_init_radius |-> kind[2][2],
      save_init |-> fl.save_init, save_image |-> fl.save_image,
      save_loss |-> fl.save_loss, save_video |-> fl.save_video,
      print_weight |-> fl.print_weight] :
        np \in lists, kind \in PathKinds, it \in 0..MaxIter, fr \in BOOLEAN,
        pool \in PoolSizes, fl \in flagsets}

\* a process at the entry of main, in one of the given environments
InitOf(configs, fss, faultsets) ==
    /\ args \in configs
    /\ \E size \in CanvasSizes : canvas_width = size[1] /\ canvas_height = size[2]
    /\ oracle \in Oracles
    /\ np_seed \in (IF args.initial = "circle" /\ args.circle_init_radius = None
                    THEN NpSeeds ELSE {0})
    /\ fs \in fss
    /\ faults \in faultsets
    /\ history = <<>>
    /\ Start
    /\ TrainStart({0}, {None})

\* a fresh output folder, and a file system that refuses nothing
Init == InitOf(Configs(NumPathsLists, MainFlags), {FreshFs}, {{}})

\* the points of the shapes, and the colours of the groups, in list order
PointListsOf(objs, ids) == [i \in 1..Len(ids) |-> objs[ids[i]].points]
FillColorsOf(objs, ids) == [i \in 1..Len(ids) |-> objs[ids[i]].fill_color]
PointLists == PointListsOf(path_objs, shapes)
FillColors == FillColorsOf(group_objs, shape_groups)

\* one optimisation state: the parameters, the error map and the loss weight
Snapshot(point_lists, colors, region, weight) ==
    [points |-> point_lists, colors |-> colors, region_loss |-> region, loss_weight |-> weight]

\* the scene save_svg is given at line 310 of an iteration that stepped it
\* from `before` to `after`
SceneBeforeStep(before, after) == before
SceneAtSave(before, after) == after

\* what save_svg writes under the name: the scene as it is
SvgDoc(name, point_lists, colors) == [name |-> name, points |-> point_lists, colors |-> colors]

\* the decoded frame cv2.imread returns for a saved render: the pixels of the
\* image, where a residual holds its distance from the target
Frame(residual) == [px \in DOMAIN residual |-> RES - residual[px]]

\* lines 329-342: what img is bound to when the stage's video has been written
ImgAfterVideo(image, save_video, num_iter) ==
    IF save_video /\ num_iter > 0 THEN Some(Frame(Get(image))) ELSE image

\* the error map is taken from img as the video loop leaves it
PixelLossSourceLate(rendered, after_video) == after_video

\* line 317 reads img before the video loop of lines 329-342 rebinds it
PixelLossSource(rendered, after_video) == rendered

\* lines 217-234: the output folder is made, the generators are seeded
MakeSavePath ==
    /\ UNCHANGED train_vars
    /\ pc = "start"
    /\ \E r \in {make_save_path(args.save_video, fs, faults)} :
          /\ fs' = r.fs
          /\ IF r.raised
             THEN pc' = "error" /\ error' = "OSError"
             ELSE pc' = "stage" /\ error' = error
    /\ UNCHANGED <<config_vars, np_seed, stage, t, current_path_str, path_objs,
                   group_objs, shapes, shape_groups, old_shapes, old_shape_groups,
                   points_vars, color_vars, points_sched, color_sched, region_loss,
                   loss_weight, img, indices, loss_list, loss_matrix, rng_state,
                   np_count, rand_log, svg_files, side_log, trace, history>>

\* lines 236-270: a stage starts
StageBegin ==
    /\ UNCHANGED train_vars
    /\ pc = "stage"
    /\ MoreStages(stage, args.num_paths)
    /\ LET num_paths == args.num_paths[stage + 1] IN
       \E sorted \in (IF region_loss = None THEN {<<>>}
                       ELSE SelectedIndices(Get(region_loss), args.pool_size, num_paths)) :
       \E new \in {init_new_paths(num_paths, canvas_width, canvas_height, args,
                                   Len(old_shapes), region_loss, sorted,
                                   rng_state, np_count, np_seed)} :
         LET first == Len(path_objs)
             new_ids == [i \in 1..Len(new.shapes) |-> first + i]
             pv == OldPointsVars(args.free, old_shapes) \o new_ids
             cv == OldColorVars(args.free, old_shape_groups) \o new_ids
         IN  /\ stage' = stage + 1
             /\ indices' = sorted
             /\ loss_list' = <<>>
             /\ current_path_str' = Append(current_path_str, num_paths)
             /\ rng_state' = new.rng
             /\ np_count' = new.npc
             /\ rand_log' = rand_log \o new.log
             /\ t' = 0
             /\ IF new.error # "None"
                THEN /\ pc' = "error"
                     /\ error' = new.error
                     /\ UNCHANGED <<path_objs, group_objs, shapes, shape_groups,
                                    points_vars, color_vars, points_sched, color_sched,
                                    svg_files, trace>>
                ELSE /\ path_objs' =
                          [id \in 1..first |->
                              IF \E j \in 1..Len(old_shapes) : old_shapes[j] = id
                              THEN [path_objs[id] EXCEPT !.requires_grad = args.free]
                              ELSE path_objs[id]] \o new.shapes
                     /\ group_objs' =
                          [id \in 1..first |->
                              IF \E j \in 1..Len(old_shape_groups) : old_shape_groups[j] = id
                              THEN [group_objs[id] EXCEPT !.requires_grad = args.free]
                              ELSE group_objs[id]] \o new.shape_groups
                     /\ shapes' = ConcatScene(old_shapes, new_ids)
                     /\ shape_groups' = ConcatScene(old_shape_groups, new_ids)
                     \* lines 261-263
                     /\ svg_files' =
                          IF args.save_init
                          THEN Append(svg_files,
                                      SvgDoc(InitSvgName(current_path_str'),
                                             PointListsOf(path_objs', shapes'),
                                             FillColorsOf(group_objs', shape_groups')))
                          ELSE svg_files
                     /\ trace' = Append(trace, Snapshot(PointListsOf(path_objs', shapes'),
                                                         FillColorsOf(group_objs', shape_groups'),
                                                         region_loss, loss_weight))
                     /\ points_vars' = pv
                     /\ color_vars' = cv
                     \* torch.optim.Adam refuses an empty parameter list
                     /\ IF pv = <<>>
                        THEN /\ pc' = "error" /\ error' = "ValueError"
                             /\ UNCHANGED <<points_sched, color_sched>>
                        ELSE /\ pc' = "iter" /\ error' = error
                             /\ points_sched' = NewScheduler(PointsBaseLr)
                             /\ color_sched' = NewScheduler(ColorBaseLr)
    /\ UNCHANGED <<config_vars, np_seed, fs, old_shapes, old_shape_groups, region_loss,
                   loss_weight, img, loss_matrix, side_log, history>>

\* lines 273-310: one Adam iteration
Iterate ==
    /\ UNCHANGED train_vars
    /\ pc = "iter"
    /\ InRange(t, args.num_iter)
    /\ \E residual \in {render(oracle, canvas_width, canvas_height, t, PointLists, FillColors)} :
           /\ img' = Some(residual)
           /\ loss_list' = Append(loss_list, WeightedLoss(residual, loss_weight))
    \* lines 281-286
    /\ side_log' = side_log
                   \o (IF args.save_video THEN <<FrameName(current_path_str, t)>> ELSE <<>>)
                   \o (IF t = args.num_iter - 1 /\ args.save_image
                       THEN <<PngName(current_path_str)>> ELSE <<>>)
    \* imwrite makes the directory of the file when it is missing
    /\ fs' = IF args.save_video /\ fs["images"] = "absent"
             THEN [fs EXCEPT !["images"] = "dir"] ELSE fs
    /\ path_objs' = StepPoints(path_objs, points_vars, oracle, t, points_sched.lr)
    /\ group_objs' = ClampGroups(StepColors(group_objs, color_vars, oracle, t, color_sched.lr),
                                 shape_groups)
    /\ points_sched' = SchedulerStep(points_sched, PointsBaseLr, PointsEtaMin, args.num_iter)
    /\ color_sched' = SchedulerStep(color_sched, ColorBaseLr, ColorEtaMin, args.num_iter)
    \* lines 308-310
    /\ svg_files' =
         IF t = args.num_iter - 1
         THEN Append(svg_files,
                     SvgDoc(SvgName(current_path_str),
                            SceneAtSave(PointLists, PointListsOf(path_objs', shapes)),
                            SceneAtSave(FillColors, FillColorsOf(group_objs', shape_groups))))
         ELSE svg_files
    /\ trace' = Append(trace, Snapshot(PointListsOf(path_objs', shapes),
                                       FillColorsOf(group_objs', shape_groups),
                                       region_loss, loss_weight))
    /\ t' = t + 1
    /\ UNCHANGED <<config_vars, np_seed, pc, error, stage, current_path_str, shapes,
                   shape_groups, old_shapes, old_shape_groups, points_vars, color_vars,
                   region_loss, loss_weight, indices, loss_matrix, rng_state, np_count,
                   rand_log, history>>

\* lines 312-342: the stage ends; img is unbound when no iteration has run
StageEnd ==
    /\ UNCHANGED train_vars
    /\ pc = "iter"
    /\ ~InRange(t, args.num_iter)
    /\ loss_matrix' = Append(loss_matrix, loss_list)
    /\ old_shapes' = shapes
    /\ old_shape_groups' = shape_groups
    /\ IF img = None
       THEN /\ pc' = "error"
            /\ error' = "NameError"
            /\ UNCHANGED <<region_loss, loss_weight, img, side_log, trace>>
       ELSE /\ pc' = "stage"
            /\ error' = error
            /\ img' = ImgAfterVideo(img, args.save_video, args.num_iter)
            /\ \E pixel_loss \in {Get(PixelLossSource(img, img'))} :
                  /\ region_loss' = Some(adaptive_avg_pool2d(pixel_loss, canvas_height,
                                                             canvas_width, args.pool_size,
                                                             args.pool_size))
                  /\ loss_weight' = LossWeight(pixel_loss, args.pool_size,
                                               canvas_width, canvas_height)
            \* lines 320-321, 325-328, 329-342
            /\ side_log' = side_log
                           \o (IF args.print_weight THEN <<"softmax loss weight">> ELSE <<>>)
                           \o (IF args.save_loss THEN LossMapNames(current_path_str) ELSE <<>>)
                           \o (IF args.save_video THEN <<VideoName(current_path_str)>> ELSE <<>>)
            /\ trace' = Append(trace, Snapshot(PointLists, FillColors, region_loss', loss_weight'))
    /\ UNCHANGED <<config_vars, np_seed, fs, stage, t, current_path_str, path_objs,
                   group_objs, shapes, shape_groups, points_vars, color_vars, points_sched,
                   color_sched, indices, loss_list, rng_state, np_count, rand_log,
                   svg_files, history>>

\* lines 344-366: the list of stages is exhausted
Finish ==
    /\ UNCHANGED train_vars
    /\ pc = "stage"
    /\ ~MoreStages(stage, args.num_paths)
    /\ pc' = "done"
    /\ side_log' = side_log \o (IF args.save_video THEN <<"save_path/videos/all.mp4">> ELSE <<>>)
    \* line 366: rm -rf images
    /\ fs' = IF args.save_video THEN [fs EXCEPT !["images"] = "absent"] ELSE fs
    /\ UNCHANGED <<config_vars, np_seed, error, stage, t, current_path_str, path_objs,
                   group_objs, shapes, shape_groups, old_shapes, old_shape_groups,
                   points_vars, color_vars, points_sched, color_sched, region_loss,
                   loss_weight, img, indices, loss_list, loss_matrix, rng_state, np_count,
                   rand_log, svg_files, trace, history>>

Next == MakeSavePath \/ StageBegin \/ Iterate \/ StageEnd \/ Finish

Spec == Init /\ [][Next]_vars

\* main is one sequential thread: while a step is possible, one is taken
FairSpec == Spec /\ WF_vars(Next)

\* the program is started again on the same target, oracle and output folder
\* with the given arguments; random.seed(1234) is executed again, numpy's
\* generator starts in one of the given states
Restart(new_args, seeds) ==
    /\ UNCHANGED train_vars
    /\ pc = "done"
    /\ history = <<>>
    /\ history' = <<[loss_matrix |-> loss_matrix, rand_log |-> rand_log, trace |-> trace]>>
    /\ args' = new_args
    /\ np_seed' \in seeds
    /\ pc' = "start"
    /\ error' = "None"
    /\ stage' = 0
    /\ t' = 0
    /\ current_path_str' = <<>>
    /\ path_objs' = <<>>
    /\ group_objs' = <<>>
    /\ shapes' = <<>>
    /\ shape_groups' = <<>>
    /\ old_shapes' = <<>>
    /\ old_shape_groups' = <<>>
    /\ points_vars' = <<>>
    /\ color_vars' = <<>>
    /\ points_sched' = NewScheduler(PointsBaseLr)
    /\ color_sched' = NewScheduler(ColorBaseLr)
    /\ region_loss' = None
    /\ loss_weight' = UniformWeight(canvas_width, canvas_height)
    /\ img' = None
    /\ indices' = <<>>
    /\ loss_list' = <<>>
    /\ loss_matrix' = <<>>
    /\ rng_state' = 0
    /\ np_count' = 0
    /\ rand_log' = <<>>
    /\ svg_files' = <<>>
    /\ side_log' = <<>>
    /\ trace' = <<>>
    /\ UNCHANGED <<canvas_width, canvas_height, oracle, faults, fs>>

\* the same command line again
Rerun ==
    Restart(args, IF args.initial = "circle" /\ args.circle_init_radius = None
                  THEN NpSeeds ELSE {0})

NextRerun == Next \/ Rerun

SpecRerun == Init /\ [][NextRerun]_vars

\* the same command line with other optional outputs, numpy's generator in the
\* state it had at the start of the first run
RerunFlags ==
    \E fl \in FlagSets :
       Restart([args EXCEPT !.save_init = fl.save_init, !.save_image = fl.save_image,
                            !.save_loss = fl.save_loss, !.save_video = fl.save_video,
                            !.print_weight = fl.print_weight],
               {np_seed})

\* first runs without optional outputs, compared with every setting of them
InitFlags ==
    InitOf({c \in Configs(NumPathsLists, {NoFlags}) : c.num_iter >= 1 /\ c.pool_size = 2},
           {FreshFs}, {{}})

NextFlags == Next \/ RerunFlags

SpecFlags == InitFlags /\ [][NextFlags]_vars

\* VAE/utils.py: a caller of mkdir_p on one of the directories
MkdirP ==
    /\ UNCHANGED train_vars
    /\ pc = "start"
    /\ \E d \in DirNames :
       \E r \in {mkdir_p(fs, d, faults)} :
          /\ fs' = r.fs
          /\ IF r.raised
             THEN pc' = "error" /\ error' = "OSError"
             ELSE pc' = "made" /\ error' = error
    /\ UNCHANGED <<config_vars, np_seed, stage, t, current_path_str, path_objs,
                   group_objs, shapes, shape_groups, old_shapes, old_shape_groups,
                   points_vars, color_vars, points_sched, color_sched, region_loss,
                   loss_weight, img, indices, loss_list, loss_matrix, rng_state,
                   np_count, rand_log, svg_files, side_log, trace, history>>

\* one command line on every state of the output folder, with every set of
\* refused creations
InitDirs ==
    InitOf({c \in Configs({<<1>>}, {NoFlags, AllFlags}) :
               /\ c.num_segments = 2 /\ c.initial = "random" /\ c.num_iter = 1
               /\ ~c.free /\ c.pool_size = 1},
           FsStates, SUBSET DirNames)

NextDirs == MakeSavePath \/ MkdirP

SpecDirs == InitDirs /\ [][NextDirs]_vars

\* -------------------------------------------- fashionmnist/main.py, main
main_vars == <<args, canvas_width, canvas_height, oracle, np_seed, fs, faults, pc,
               error, stage, t, current_path_str, path_objs, group_objs, shapes,
               shape_groups, old_shapes, old_shape_groups, points_vars, color_vars,
               points_sched, color_sched, region_loss, loss_weight, img, indices,
               loss_list, loss_matrix, rng_state, np_count, rand_log, svg_files,
               side_log, trace, history>>

\* lines 101-113: without last_checkpoint.pth the names keep the values of
\* lines 97-98, with it they are taken from the file
LoadCheckpoint ==
    /\ main_pc = "begin"
    /\ IF checkpoint = None
       THEN UNCHANGED <<start_epoch, best_test_loss>>
       ELSE /\ start_epoch' = Get(checkpoint).epoch
            /\ best_test_loss' = Get(checkpoint).best_test_loss
    /\ main_pc' = "loop"
    /\ UNCHANGED <<train_args, checkpoint, epoch, is_best, test_out, logger, main_vars>>

\* lines 129-148: one pass of the loop body; loss is what validate returns
Epoch ==
    /\ main_pc = "loop"
    /\ Len(logger) < Len(range(start_epoch, train_args.epoch))
    /\ epoch' = Some(range(start_epoch, train_args.epoch)[Len(logger) + 1])
    /\ \E loss \in Losses :
          /\ test_out' = Some(loss)
          /\ IF IsBetter(loss, best_test_loss)
             THEN best_test_loss' = loss /\ is_best' = Some(TRUE)
             ELSE best_test_loss' = best_test_loss /\ is_best' = Some(FALSE)
          /\ logger' = Append(logger, <<Get(epoch'), loss>>)
    /\ UNCHANGED <<train_args, checkpoint, main_pc, start_epoch, main_vars>>

\* line 150: the range is exhausted
Close ==
    /\ main_pc = "loop"
    /\ Len(logger) >= Len(range(start_epoch, train_args.epoch))
    /\ main_pc' = "closed"
    /\ UNCHANGED <<train_args, checkpoint, best_test_loss, start_epoch, epoch, is_best,
                   test_out, logger, main_vars>>

\* every --epoch up to the bound on every checkpoint file; the other program
\* is not started
InitTrain ==
    /\ args \in {c \in Configs({<<1>>}, {NoFlags}) :
                    /\ c.num_segments = 2 /\ c.initial = "random" /\ c.num_iter = 1
                    /\ ~c.free /\ c.pool_size = 1}
    /\ \E size \in CanvasSizes : canvas_width = size[1] /\ canvas_height = size[2]
    /\ oracle = 0
    /\ np_seed = 0
    /\ fs = FreshFs
    /\ faults = {}
    /\ history = <<>>
    /\ Start
    /\ TrainStart(0..MaxEpoch, Checkpoints)

NextTrain == LoadCheckpoint \/ Epoch \/ Close

SpecTrain == InitTrain /\ [][NextTrain]_vars

\* ================================================================ claims
Running == pc \in {"stage", "iter", "done"}

\* the new-shape counts of the first n stages, summed
CountAfter(n) == SumSeq(SubSeq(args.num_paths, 1, n))

\* C1: the scene is empty before the first stage; while stage i optimises, the
\* scene has as many shapes, and as many groups, as the scene of stage i-1 plus
\* num_paths[i]; between stages that scene is the accumulated one.
C1_ShapeCount ==
    /\ stage = 0 => Len(shapes) = 0 /\ Len(shape_groups) = 0
    /\ pc = "iter" =>
          /\ Len(shapes) = Len(old_shapes) + args.num_paths[stage]
          /\ Len(shape_groups) = Len(old_shape_groups) + args.num_paths[stage]
    /\ (pc \in {"stage", "done"} /\ stage > 0) =>
          /\ old_shapes = shapes /\ old_shape_groups = shape_groups
    /\ Running =>
          /\ Len(shapes) = CountAfter(stage)
          /\ Len(shape_groups) = CountAfter(stage)

C1_Witness ==
    /\ pc = "stage" /\ stage = 2
    /\ args.num_paths = <<1, 2>>
    /\ Len(shapes) = 3 /\ Len(shape_groups) = 3

\* the groups that name shape index i
GroupsOf(i) == {j \in 1..Len(shape_groups) : \E k \in 1..Len(group_objs[shape_groups[j]].shape_ids) : group_objs[shape_groups[j]].shape_ids[k] = i}

\* C2: shapes and groups are parallel lists: the group at (0-based) position j
\* holds the single index j; so every index is within the shape list, no two
\* groups name the same shape, and every shape is in exactly one group.
C2_Parallel ==
    Running =>
      /\ Len(shape_groups) = Len(shapes)
      /\ \A j \in 1..Len(shape_groups) :
            group_objs[shape_groups[j]].shape_ids = <<j - 1>>
      /\ \A j \in 1..Len(shape_groups) :
            \A k \in 1..Len(group_objs[shape_groups[j]].shape_ids) :
               group_objs[shape_groups[j]].shape_ids[k] \in 0..(Len(shapes) - 1)
      /\ \A i \in 0..(Len(shapes) - 1) : Cardinality(GroupsOf(i)) = 1

C2_Witness ==
    /\ pc = "iter" /\ stage = 2 /\ t = 1
    /\ Len(old_shapes) = 1 /\ Len(shapes) = 3
    /\ group_objs[shape_groups[3]].shape_ids = <<2>>

\* C3: without --free, no step changes the points or the fill colour of a shape
\* of an earlier stage: neither the optimiser steps nor the clamp over all groups.
C3_Frozen ==
    [][~args.free =>
          /\ \A j \in 1..Len(old_shapes) :
                path_objs'[old_shapes[j]].points = path_objs[old_shapes[j]].points
          /\ \A j \in 1..Len(old_shape_groups) :
                group_objs'[old_shape_groups[j]].fill_color
                   = group_objs[old_shape_groups[j]].fill_color]_vars

C3_Witness ==
    /\ ~args.free
    /\ pc = "iter" /\ stage = 2 /\ t = 2 /\ args.num_iter = 2
    /\ Len(old_shapes) = 2 /\ Len(points_vars) = 1

\* C4: every fill-colour channel of every group of the scene is within [0, 1],
\* at initialisation and after every iteration of every stage.
C4_ColorRange ==
    \A j \in 1..Len(shape_groups) :
       \A k \in 1..4 : group_objs[shape_groups[j]].fill_color[k] \in 0..UNIT

\* channels at both limits after a step of the second stage: a draw is below 1,
\* so the upper one is there by the clamp
C4_Witness ==
    /\ pc = "iter" /\ stage = 2 /\ t >= 1
    /\ \E j \in 1..Len(shape_groups), k \in 1..4 :
          group_objs[shape_groups[j]].fill_color[k] = UNIT
    /\ \E j \in 1..Len(shape_groups), k \in 1..4 :
          group_objs[shape_groups[j]].fill_color[k] = 0

\* some stage asks for more new shapes than the pooled grid has cells
ExceedsPool == \E i \in 1..Len(args.num_paths) : args.num_paths[i] > args.pool_size * args.pool_size

\* C5: a run whose configuration asks, at any stage, for more new shapes than
\* pool_size*pool_size cells never executes an optimisation iteration and
\* never completes.
C5_ConfigError ==
    ExceedsPool =>
       /\ loss_list = <<>>
       /\ \A i \in 1..Len(loss_matrix) : loss_matrix[i] = <<>>
       /\ pc # "done"

\* the stable descending order: equal values in ascending index order
StableDescending(values) ==
    CHOOSE perm \in DescendingSorts(values) :
       \A i, j \in 1..Len(perm) :
          (i < j /\ values[perm[i]] = values[perm[j]]) => perm[i] < perm[j]

\* C6: the cells a guided placement selects are the first k of the pooled grid
\* in descending value order with equal values in ascending flattened index
\* order: a function of the grid.
C6_StableSelection ==
    (pc = "iter" /\ region_loss # None) =>
       indices = Prefix(StableDescending(Flatten(Get(region_loss), args.pool_size)),
                        args.num_paths[stage])

\* the points of the i-th shape created by the current stage
NewPointsOf(i) == path_objs[shapes[Len(old_shapes) + i]].points

\* C7: with an error map, before the first iteration of the stage, the mean of
\* the control points of the i-th new shape is the centre of the i-th selected
\* cell, ((w+0.5)/pool_size * canvas_width, (h+0.5)/pool_size * canvas_height)
\* with h = n div pool_size and w = n mod pool_size, in either initial mode.
C7_Centroid ==
    (pc = "iter" /\ t = 0 /\ region_loss # None) =>
       \A i \in 1..args.num_paths[stage] :
          LET pts == NewPointsOf(i)
              h == indices[i] \div args.pool_size
              w == indices[i] % args.pool_size
          IN  /\ 2 * args.pool_size * SumSeq([k \in 1..Len(pts) |-> pts[k][1]])
                    = Len(pts) * (2 * w + 1) * UNIT * canvas_width
              /\ 2 * args.pool_size * SumSeq([k \in 1..Len(pts) |-> pts[k][2]])
                    = Len(pts) * (2 * h + 1) * UNIT * canvas_height

C7_Witness ==
    /\ pc = "iter" /\ t = 0 /\ stage = 2
    /\ args.initial = "circle" /\ args.pool_size = 2
    /\ indices = <<1, 2>>
    /\ Mean(NewPointsOf(1)) = <<3 * UNIT, UNIT \div 2>>
    /\ Mean(NewPointsOf(2)) = <<UNIT, 3 * (UNIT \div 2)>>

\* C8: a second run with the same arguments, target and oracle draws the values
\* the first run drew and records the loss trajectories the first run recorded.
C8_Deterministic ==
    history # <<>> =>
       /\ rand_log = Prefix(history[1].rand_log, Len(rand_log))
       /\ loss_matrix = Prefix(history[1].loss_matrix, Len(loss_matrix))
       /\ pc = "done" => /\ rand_log = history[1].rand_log
                         /\ loss_matrix = history[1].loss_matrix

\* C9: a stage leaves its loop only after num_iter iterations, every iteration
\* appends one loss to the end of the stage's trajectory, and every recorded
\* trajectory has num_iter entries.
C9_FixedIterations ==
    /\ [](Running => Len(loss_list) = t /\ t <= args.num_iter)
    /\ [](\A i \in 1..Len(loss_matrix) : Len(loss_matrix[i]) = args.num_iter)
    /\ [][(pc = "iter" /\ pc' # "iter") => t = args.num_iter]_vars
    /\ [][(pc = "iter" /\ t' # t) =>
             /\ t' = t + 1
             /\ Len(loss_list') = t'
             /\ SubSeq(loss_list', 1, t) = loss_list]_vars
    /\ [][loss_matrix' # loss_matrix =>
             /\ loss_matrix' = Append(loss_matrix, loss_list)
             /\ Len(loss_list) = args.num_iter]_vars

C9_Witness ==
    /\ pc = "stage" /\ stage = 2 /\ args.num_iter = 2
    /\ Len(loss_matrix) = 2 /\ Len(loss_matrix[2]) = 2

\* every stage adds at least one shape and no more than the grid has cells,
\* and at least one iteration is run
ValidConfig ==
    /\ args.num_iter >= 1
    /\ \A i \in 1..Len(args.num_paths) :
          args.num_paths[i] >= 1 /\ args.num_paths[i] <= args.pool_size * args.pool_size

\* C10: the stages begun so far are the first entries of num_paths, in order; a
\* stage begins only when every earlier one has recorded its trajectory; Done is
\* reached only after the last stage, with one trajectory per stage; and a run
\* with a valid configuration reaches Done.
C10_Sequential ==
    /\ [](current_path_str = SubSeq(args.num_paths, 1, stage))
    /\ [][stage' # stage =>
             /\ stage' = stage + 1
             /\ pc = "stage"
             /\ Len(loss_matrix) = stage]_vars
    /\ [](pc = "done" => /\ stage = Len(args.num_paths)
                         /\ Len(loss_matrix) = Len(args.num_paths))
    /\ (ValidConfig ~> pc = "done")

C10_Witness ==
    /\ pc = "done" /\ ValidConfig
    /\ Len(args.num_paths) = 2 /\ Len(loss_matrix) = 2

\* the shapes (or groups) the current stage created, in list order
NewOf(all, old) == SubSeq(all, Len(old) + 1, Len(all))

\* C11: while a stage optimises, the optimisers' parameter lists are, without
\* --free, exactly the points and the colours of the shapes the stage created
\* and hold no earlier shape; with --free, those of every shape of the scene,
\* earlier ones first.  No iteration changes the lists.
C11_ParamSets ==
    /\ [](pc = "iter" =>
            IF args.free
            THEN points_vars = shapes /\ color_vars = shape_groups
            ELSE /\ points_vars = NewOf(shapes, old_shapes)
                 /\ color_vars = NewOf(shape_groups, old_shape_groups)
                 /\ Len(points_vars) = args.num_paths[stage]
                 /\ Len(color_vars) = args.num_paths[stage]
                 /\ \A j \in 1..Len(old_shapes) :
                       \A k \in 1..Len(points_vars) : points_vars[k] # old_shapes[j]
                 /\ \A j \in 1..Len(old_shape_groups) :
                       \A k \in 1..Len(color_vars) : color_vars[k] # old_shape_groups[j])
    /\ [][(pc = "iter" /\ pc' = "iter") =>
             points_vars' = points_vars /\ color_vars' = color_vars]_vars

C11_Witness ==
    /\ pc = "iter" /\ stage = 2 /\ t = 1
    /\ ~args.free
    /\ Len(old_shape_groups) = 1 /\ Len(shape_groups) = 3
    /\ color_vars = <<shape_groups[2], shape_groups[3]>>

\* C12: until the first stage has ended there is no error map, the placement is
\* unguided and the loss weight is 1/(W*H) at every pixel. At the end of a stage
\* the error map and the loss weight are computed from img, which every
\* iteration binds to its render: so from the last render of the stage, and from
\* nothing else. The next stage selects its cells from that map, and no
\* iteration changes the map or the weight it multiplies the loss by.
C12_ErrorMapFlow ==
    /\ [](Len(loss_matrix) = 0 =>
            /\ region_loss = None
            /\ indices = <<>>
            /\ loss_weight.den = canvas_width * canvas_height
            /\ \A px \in Pixels(canvas_width, canvas_height) : loss_weight.num[px] = 1)
    /\ [][(pc = "iter" /\ t' = t + 1) =>
             /\ img' = Some(render(oracle, canvas_width, canvas_height, t,
                                   PointLists, FillColors))
             /\ region_loss' = region_loss /\ loss_weight' = loss_weight
             /\ loss_list' = Append(loss_list, WeightedLoss(Get(img'), loss_weight))]_vars
    /\ [][(pc = "iter" /\ pc' = "stage") =>
             /\ region_loss' = Some(adaptive_avg_pool2d(Get(img), canvas_height,
                                                        canvas_width, args.pool_size,
                                                        args.pool_size))
             /\ loss_weight' = LossWeight(Get(img), args.pool_size,
                                          canvas_width, canvas_height)]_vars
    /\ [][(pc = "stage" /\ pc' = "iter") =>
             /\ region_loss' = region_loss /\ loss_weight' = loss_weight
             /\ (region_loss # None) =>
                   indices' \in SelectedIndices(Get(region_loss), args.pool_size,
                                                args.num_paths[stage'])]_vars

C12_Witness ==
    /\ pc = "iter" /\ stage = 2 /\ t = 1
    /\ args.save_video /\ args.pool_size = 2
    /\ region_loss # None
    /\ loss_weight # UniformWeight(canvas_width, canvas_height)
    /\ Len(indices) = 2

\* C13: the loss weight, a numerator per pixel over one denominator, is
\* non-negative at every pixel and sums to 1 over the canvas: the first-stage
\* uniform weight as well as the weight every stage end computes.
C13_WeightSum ==
    /\ loss_weight.den > 0
    /\ DOMAIN loss_weight.num = Pixels(canvas_width, canvas_height)
    /\ \A px \in Pixels(canvas_width, canvas_height) : loss_weight.num[px] >= 0
    /\ SumOver(loss_weight.num, Pixels(canvas_width, canvas_height)) = loss_weight.den

C13_Witness ==
    /\ pc = "stage" /\ stage = 2 /\ args.pool_size = 2
    /\ \E px, py \in Pixels(canvas_width, canvas_height) :
          loss_weight.num[px] > loss_weight.num[py]

\* how many times a document of this name has been written
NumWrites(name) == Cardinality({k \in 1..Len(svg_files) : svg_files[k].name = name})

\* stage i has run its last iteration
PastLastIteration(i) ==
    \/ i < stage
    \/ i = stage /\ pc \in {"stage", "done"}
    \/ i = stage /\ pc = "iter" /\ t = args.num_iter /\ args.num_iter >= 1

\* C14: the document <save_path>/<c>.svg of a stage, c the comma-joined counts
\* of the stages up to it, has been written once when the stage has run its
\* last iteration and not at all before; it is written by that iteration; and
\* no two documents written in a run have the same name.
C14_SvgOncePerStage ==
    /\ [](\A i \in 1..stage :
            NumWrites(SvgName(SubSeq(args.num_paths, 1, i)))
               = IF PastLastIteration(i) THEN 1 ELSE 0)
    /\ [](\A k, l \in 1..Len(svg_files) : k # l => svg_files[k].name # svg_files[l].name)
    /\ [][(svg_files' # svg_files /\ pc = "iter") =>
             /\ t = args.num_iter - 1
             /\ svg_files' = Append(svg_files, svg_files'[Len(svg_files')])
             /\ svg_files'[Len(svg_files')].name = SvgName(SubSeq(args.num_paths, 1, stage))]_vars

C14_Witness ==
    /\ pc = "done" /\ args.num_paths = <<1, 1>> /\ ~args.save_init
    /\ Len(svg_files) = 2
    /\ svg_files[1].name = "save_path/1.svg"
    /\ svg_files[2].name = "save_path/1,1.svg"

C16_PointCount ==
    \A id \in 1..Len(path_objs) :
       Len(path_objs[id].points) = 1 + SumSeq(path_objs[id].num_control_points)

\* C16 amended: every path the initializer produces, in random and in circle
\* mode, has num_segments segments of 2 control points each and one point per
\* control point plus one anchor per segment, 3 * num_segments in all: the
\* closed path has no separate final anchor.
C16_ClosedPointCount ==
    \A id \in 1..Len(path_objs) :
       /\ Len(path_objs[id].num_control_points) = args.num_segments
       /\ \A j \in 1..args.num_segments : path_objs[id].num_control_points[j] = 2
       /\ path_objs[id].is_closed
       /\ Len(path_objs[id].points)
             = SumSeq(path_objs[id].num_control_points)
               + Len(path_objs[id].num_control_points)
       /\ Len(path_objs[id].points) = 3 * args.num_segments

C16_Witness ==
    /\ pc = "iter" /\ stage = 2 /\ args.num_segments = 3 /\ args.initial = "circle"
    /\ Len(path_objs) = 2
    /\ Len(path_objs[1].points) = 9 /\ Len(path_objs[2].points) = 9

\* C17: a directory creation that finds the directory there is not an error:
\* with nothing refused and no file in the way, neither make_save_path nor
\* mkdir_p raises. Any other failure is raised: when make_save_path returns,
\* the save path is a directory and, with --save_video, so is 'videos', and so
\* is 'images' when 'videos' was created by this call; when mkdir_p returns,
\* its directory is there; and a raise has such a failure as its cause.
C17_StrictIdempotent ==
    /\ [][(pc = "start" /\ faults = {} /\ \A d \in DirNames : fs[d] # "file")
             => pc' # "error"]_vars
    /\ [][(pc = "start" /\ pc' = "stage") =>
             /\ fs'["save_path"] = "dir"
             /\ args.save_video =>
                   /\ fs'["videos"] = "dir"
                   /\ fs["videos"] = "absent" => fs'["images"] = "dir"]_vars
    /\ [][(pc = "start" /\ pc' = "made") =>
             \E d \in DirNames :
                fs'[d] = "dir" /\ (fs' = fs \/ fs[d] = "absent")]_vars
    /\ [][(pc = "start" /\ pc' = "error") =>
             \E d \in DirNames : d \in faults \/ fs[d] = "file" \/ fs["save_path"] = "file"]_vars

\* C18: while a stage iterates, each scheduler has been stepped once per
\* iteration done; the rate of the first iteration is the initial one (1.0 for
\* points, 0.01 for colours); no step of a schedule raises its rate; no rate is
\* ever below the floor (0.1, 0.001); and a new stage starts both schedules
\* again at the initial rate.
C18_Schedules ==
    /\ [](pc = "iter" =>
            /\ points_sched.last_epoch = t /\ color_sched.last_epoch = t
            /\ t = 0 => /\ points_sched.lr = LRU
                        /\ 100 * color_sched.lr = LRU)
    /\ [](/\ 10 * points_sched.lr >= LRU /\ points_sched.lr <= LRU
          /\ 1000 * color_sched.lr >= LRU /\ 100 * color_sched.lr <= LRU)
    /\ [][(pc = "iter" /\ t' = t + 1) =>
             /\ points_sched'.last_epoch = points_sched.last_epoch + 1
             /\ color_sched'.last_epoch = color_sched.last_epoch + 1
             /\ points_sched'.lr <= points_sched.lr
             /\ color_sched'.lr <= color_sched.lr]_vars
    /\ [][(pc = "stage" /\ pc' = "iter") =>
             /\ points_sched' = [last_epoch |-> 0, lr |-> LRU]
             /\ color_sched' = [last_epoch |-> 0, lr |-> LRU \div 100]]_vars

C18_Witness ==
    /\ pc = "iter" /\ stage = 2 /\ t = 1 /\ args.num_iter = 2
    /\ 100 * points_sched.lr = 55 * LRU
    /\ 10000 * color_sched.lr = 55 * LRU

\* C19: every step of a run leaves the shape list and the group list it finds
\* as a prefix of the lists it leaves: the same objects at the same positions,
\* entries added at the end only, none removed; the shape index a group holds
\* never changes; and the lists a stage starts with are the lists of the
\* previous stage followed by the stage's new entries.
C19_AppendOnly ==
    /\ [][/\ Len(shapes') >= Len(shapes)
          /\ SubSeq(shapes', 1, Len(shapes)) = shapes
          /\ Len(shape_groups') >= Len(shape_groups)
          /\ SubSeq(shape_groups', 1, Len(shape_groups)) = shape_groups
          /\ \A j \in 1..Len(shape_groups) :
                group_objs'[shape_groups[j]].shape_ids
                   = group_objs[shape_groups[j]].shape_ids]_vars
    /\ [][(pc = "stage" /\ pc' = "iter") =>
             /\ old_shapes = shapes /\ old_shape_groups = shape_groups
             /\ Len(shapes') = Len(shapes) + args.num_paths[stage']
             /\ Len(shape_groups') = Len(shape_groups) + args.num_paths[stage']
             /\ \A j \in (Len(shapes) + 1)..Len(shapes') :
                   \A k \in 1..Len(shapes) : shapes'[j] # shapes[k]]_vars

C19_Witness ==
    /\ pc = "iter" /\ stage = 2 /\ t = 1
    /\ Len(old_shapes) = 2 /\ Len(shapes) = 3
    /\ shapes[1] = old_shapes[1] /\ shapes[2] = old_shapes[2]
    /\ shape_groups[1] = old_shape_groups[1] /\ shape_groups[2] = old_shape_groups[2]

\* the document of the current stage
StageDoc == CHOOSE d \in {svg_files[k] : k \in 1..Len(svg_files)} :
               d.name = SvgName(current_path_str)

\* C20: with num_iter >= 1, the last iteration of a stage renders the scene as
\* it finds it and writes the document from the scene as its optimiser steps
\* and its clamp leave it; between stages the document of the stage holds the
\* parameters of the scene, the ones the next stage starts from; and the error
\* map the stage end computes is the pooled residual of that last render, the
\* stage end changing no parameter.
C20_SavedAfterStep ==
    /\ [][(pc = "iter" /\ t' = t + 1 /\ t = args.num_iter - 1) =>
             /\ Len(svg_files') = Len(svg_files) + 1
             /\ svg_files'[Len(svg_files')].points = PointListsOf(path_objs', shapes')
             /\ svg_files'[Len(svg_files')].colors = FillColorsOf(group_objs', shape_groups')
             /\ \A j \in 1..Len(shape_groups) : \A k \in 1..4 :
                   svg_files'[Len(svg_files')].colors[j][k] \in 0..UNIT
             /\ img' = Some(render(oracle, canvas_width, canvas_height, t,
                                   PointLists, FillColors))]_vars
    /\ []((pc \in {"stage", "done"} /\ stage >= 1) =>
             /\ StageDoc.points = PointLists
             /\ StageDoc.colors = FillColors)
    /\ [][(pc = "iter" /\ pc' = "stage") =>
             /\ region_loss' = Some(adaptive_avg_pool2d(Get(img), canvas_height,
                                                        canvas_width, args.pool_size,
                                                        args.pool_size))
             /\ path_objs' = path_objs /\ group_objs' = group_objs]_vars

\* one iteration: the document holds the stepped scene, the error map comes from
\* the render of the scene before the step
C20_Witness ==
    /\ pc = "stage" /\ stage = 1 /\ args.num_iter = 1 /\ Len(trace) = 3
    /\ StageDoc.points = trace[2].points
    /\ trace[1].points # trace[2].points
    /\ trace[1].colors # trace[2].colors
    /\ region_loss = Some(adaptive_avg_pool2d(
                             render(oracle, canvas_width, canvas_height, 0,
                                    trace[1].points, trace[1].colors),
                             canvas_height, canvas_width, args.pool_size, args.pool_size))


\* C21: whenever make_save_path returns normally with --save_video, both
\* 'videos' and 'images' are directories of the save path, whatever was there
\* before the call.
C21_VideoDirsExist ==
    [][(pc = "start" /\ pc' = "stage" /\ args.save_video) =>
          (fs'["videos"] = "dir" /\ fs'["images"] = "dir")]_vars


\* the sums of the two coordinates of a shape's points: its centroid times
\* its number of points
CoordSums(pts) ==
    << SumSeq([k \in 1..Len(pts) |-> pts[k][1]]),
       SumSeq([k \in 1..Len(pts) |-> pts[k][2]]) >>

\* C22: when a guided stage asks for at most pool_size*pool_size new shapes,
\* the selected cells are pairwise distinct and, before the first iteration,
\* the new shapes are centred on pairwise different cell centres, equal
\* residuals included.
C22_DistinctCells ==
    (pc = "iter" /\ t = 0 /\ region_loss # None
        /\ args.num_paths[stage] <= args.pool_size * args.pool_size) =>
       /\ Len(indices) = args.num_paths[stage]
       /\ \A i, j \in 1..args.num_paths[stage] :
             i # j =>
                /\ indices[i] # indices[j]
                /\ NormPosition(indices, args.pool_size)[i]
                      # NormPosition(indices, args.pool_size)[j]
                /\ CoordSums(NewPointsOf(i)) # CoordSums(NewPointsOf(j))

\* a stage placing two shapes where three cells have the same residual: the
\* second shape is on one of them, the first on the cell of largest residual
C22_Witness ==
    /\ pc = "iter" /\ t = 0 /\ region_loss # None
    /\ args.pool_size = 2 /\ args.num_paths[stage] = 2
    /\ Len(indices) = 2 /\ indices[1] # indices[2]
    /\ \E n \in (0..3) \ {indices[1], indices[2]} :
          Flatten(Get(region_loss), 2)[n] = Flatten(Get(region_loss), 2)[indices[2]]
    /\ CoordSums(NewPointsOf(1)) # CoordSums(NewPointsOf(2))


\* the value best_test_loss has when the loop starts: infinity, or the
\* checkpoint's on resume
StartingBest == IF checkpoint = None THEN Inf ELSE Get(checkpoint).best_test_loss

\* the smallest of a value and the test losses of the rows
MinWith(v, rows) ==
    CHOOSE m \in {v} \cup {rows[i][2] : i \in 1..Len(rows)} :
       \A x \in {v} \cup {rows[i][2] : i \in 1..Len(rows)} : m <= x

\* C23: in the training loop best_test_loss never increases from one epoch to
\* the next; after each epoch it is the minimum of its starting value and the
\* test losses seen so far; is_best is true for an epoch exactly when the
\* epoch's test loss is strictly lower than the best before it; and the epochs
\* run in order from start_epoch up to, not including, --epoch.
C23_BestLoss ==
    /\ [][main_pc = "loop" =>
             /\ best_test_loss' <= best_test_loss
             /\ best_test_loss' = MinWith(StartingBest, logger')]_vars
    /\ [][(main_pc = "loop" /\ logger' # logger) =>
             /\ Get(test_out') = logger'[Len(logger')][2]
             /\ Get(is_best') = (Get(test_out') < best_test_loss)]_vars
    /\ [][main_pc' # "begin" =>
             /\ start_epoch' = (IF checkpoint = None THEN 0 ELSE Get(checkpoint).epoch)
             /\ \A i \in 1..Len(logger') :
                   /\ logger'[i][1] = start_epoch' + i - 1
                   /\ logger'[i][1] < train_args.epoch
             /\ main_pc' = "closed" =>
                   (Len(logger') = 0 \/ logger'[Len(logger')][1] = train_args.epoch - 1)
             /\ (main_pc' = "closed" /\ start_epoch' < train_args.epoch) =>
                   Len(logger') = train_args.epoch - start_epoch']_vars

\* a resumed process whose first epoch repeats the checkpoint's best loss, which
\* is no improvement, and whose next epoch goes below it
C23_Witness ==
    /\ main_pc = "closed"
    /\ checkpoint # None /\ start_epoch = 1 /\ train_args.epoch = 3
    /\ StartingBest = 2
    /\ logger = <<<<1, 2>>, <<2, 1>>>>
    /\ best_test_loss = 1 /\ is_best = Some(TRUE)

====
